---- MODULE Spec2Model ----
(***************************************************************************)
(* Model of autoswe's structured-output adapter (src/autoswe/structured.py)*)
(* structured_query and structured_query_stream wrap the agent SDK's       *)
(* query(): they merge a schema directive into the caller's options, open  *)
(* one request, and consume the stream of messages the SDK yields.         *)
(*                                                                         *)
(* Python values are encoded as follows.                                   *)
(*   None / an optional value : {} is None, {x} is the value x             *)
(*   dict payload             : a set of <<key, json type, value>> entries *)
(*                              (the empty dict is the empty set)          *)
(*   model instance           : [model |-> title, fields |-> entries]      *)
(***************************************************************************)
EXTENDS Integers, Sequences, FiniteSets

\* Largest number of messages one request's stream delivers (Spec).
MaxEvents == 3

\* Largest number of messages delivered in total to the calls that are in
\* flight together (SpecConc).
MaxInFlightEvents == 2

\* Largest --max the autorefactor command is started with (SpecRefactor).
MaxIterations == 3

\* Largest number of messages one agent run delivers (SpecRefactor).
MaxRunMessages == 2

\* Largest number of comments a pull request has (SpecReview).
MaxComments == 2

None == {}

Some(x) == {x}

TheValue(opt) == CHOOSE x \in opt : TRUE

----------------------------------------------------------------------------
(* Schemas: the caller's pydantic model classes.                           *)

\* main.py's CompanyInfo: four fields, all required.
CompanyInfo ==
    [title |-> "CompanyInfo",
     fields |-> {[name |-> "name", type |-> "string", required |-> TRUE, default |-> ""],
                 [name |-> "founded_year", type |-> "integer", required |-> TRUE, default |-> ""],
                 [name |-> "headquarters", type |-> "string", required |-> TRUE, default |-> ""],
                 [name |-> "key_products", type |-> "array", required |-> TRUE, default |-> ""]}]

\* A model class whose fields all have defaults: the empty dict validates.
CompanyHint ==
    [title |-> "CompanyHint",
     fields |-> {[name |-> "name", type |-> "string", required |-> FALSE, default |-> "unknown"],
                 [name |-> "founded_year", type |-> "integer", required |-> FALSE, default |-> "0"]}]

Schemas == {CompanyInfo, CompanyHint}

\* schema.model_json_schema(): the portable descriptor sent to the SDK.
model_json_schema(schema) ==
    [title |-> schema.title,
     type |-> "object",
     properties |-> {<<f.name, f.type>> : f \in schema.fields},
     required |-> {f.name : f \in {g \in schema.fields : g.required}}]

\* Whether the dict carries the field with the field's type, or may omit it.
FieldAccepted(f, payload) ==
    IF \E e \in payload : e[1] = f.name
    THEN \A e \in payload : e[1] = f.name => e[2] = f.type
    ELSE ~f.required

\* The instance pydantic builds: declared fields only, defaults filled in.
InstanceOf(schema, payload) ==
    [model |-> schema.title,
     fields |-> {e \in payload : \E f \in schema.fields : f.name = e[1]}
                \cup {<<f.name, f.type, f.default>> :
                        f \in {g \in schema.fields : \A e \in payload : e[1] # g.name}}]

\* schema.model_validate(payload): the instance, or a ValidationError.
model_validate(schema, payload) ==
    IF \A f \in schema.fields : FieldAccepted(f, payload)
    THEN [ok |-> TRUE, value |-> Some(InstanceOf(schema, payload))]
    ELSE [ok |-> FALSE, value |-> None]

----------------------------------------------------------------------------
(* Options: ClaudeAgentOptions, a dataclass.                               *)

\* ClaudeAgentOptions(): every field at its default.
DefaultOptions ==
    [permission_mode |-> None, setting_sources |-> None, output_format |-> None]

\* A caller's options that leave output_format unset.
EditOptions ==
    [permission_mode |-> Some("acceptEdits"), setting_sources |-> Some("project"),
     output_format |-> None]

\* A caller's options that already carry a response-shape directive.
ShapedOptions ==
    [permission_mode |-> Some("acceptEdits"), setting_sources |-> None,
     output_format |-> Some([type |-> "json_schema", schema |-> model_json_schema(CompanyHint)])]

\* The `options` argument: None or a caller-owned options object.
BaseOptions == {None, Some(EditOptions), Some(ShapedOptions)}

output_format_of(schema) ==
    [type |-> "json_schema", schema |-> model_json_schema(schema)]

\* A bug: set output_format on the caller's object and return that object.
merge_options_in_place(options, schema) ==
    LET merged == IF options = None
                  THEN [DefaultOptions EXCEPT !.output_format = Some(output_format_of(schema))]
                  ELSE [TheValue(options) EXCEPT !.output_format = Some(output_format_of(schema))]
    IN  [result |-> merged,
         options |-> IF options = None THEN None ELSE Some(merged)]

\* A bug: keep an output_format the caller has already set.
merge_options_keep(options, schema) ==
    LET kept == options # None /\ TheValue(options).output_format # None
        merged == IF options = None
                  THEN [DefaultOptions EXCEPT !.output_format = Some(output_format_of(schema))]
                  ELSE IF kept THEN TheValue(options)
                  ELSE [TheValue(options) EXCEPT !.output_format = Some(output_format_of(schema))]
    IN  [result |-> merged, options |-> options]

\* _merge_options: `result` is the value returned, `options` the caller's
\* object as the call leaves it (dataclasses.replace builds a new object).
merge_options(options, schema) ==
    LET output_format == output_format_of(schema)
    IN  IF options = None
        THEN [result |-> [DefaultOptions EXCEPT !.output_format = Some(output_format)],
              options |-> options]
        ELSE [result |-> [TheValue(options) EXCEPT !.output_format = Some(output_format)],
              options |-> options]

----------------------------------------------------------------------------
(* Messages: what query() yields.                                          *)

Acme ==
    {<<"name", "string", "Acme">>, <<"founded_year", "integer", "1999">>,
     <<"headquarters", "string", "Springfield">>, <<"key_products", "array", "Widgets">>}

Anthropic ==
    {<<"name", "string", "Anthropic">>, <<"founded_year", "integer", "2021">>,
     <<"headquarters", "string", "San Francisco">>, <<"key_products", "array", "Claude">>}

\* founded_year has the wrong type.
NotANumber ==
    {<<"name", "string", "Acme">>, <<"founded_year", "string", "not-a-number">>,
     <<"headquarters", "string", "Springfield">>, <<"key_products", "array", "Widgets">>}

EmptyDict == {}

Payloads == {Acme, Anthropic, NotANumber, EmptyDict}

\* payload: a ResultMessage's structured_output; for the other kinds the
\* data the message carries (content, data), which the adapter never reads.
AssistantMessage == [kind |-> "AssistantMessage", payload |-> Some(Acme)]

SystemMessage == [kind |-> "SystemMessage", payload |-> Some(Anthropic)]

ResultMessage(structured_output) ==
    [kind |-> "ResultMessage", payload |-> structured_output]

Messages ==
    {AssistantMessage, SystemMessage, ResultMessage(None)}
    \cup {ResultMessage(Some(p)) : p \in Payloads}

\* Failures the SDK raises while its stream is being iterated.
TransportErrors == {"CLIConnectionError", "ProcessError"}

----------------------------------------------------------------------------
(* The adapter's code, as operators.                                       *)

MissingOutput == "ValueError: No structured output received from query"

ValidationError == "ValidationError"

Pending == [kind |-> "pending", value |-> None, error |-> ""]

Return(value) == [kind |-> "returned", value |-> value, error |-> ""]

Raise(error) == [kind |-> "raised", value |-> None, error |-> error]

\* The async generator ran to its end (StopAsyncIteration).
Exhausted == [kind |-> "exhausted", value |-> None, error |-> ""]

\* Python truthiness of message.structured_output: None and {} are falsy.
Truthy(structured_output) ==
    structured_output # None /\ TheValue(structured_output) # EmptyDict

\* structured_query's loop body: the local structured_output after `message`.
loop_body(message, structured_output) ==
    IF message.kind = "ResultMessage" /\ Truthy(message.payload)
    THEN message.payload
    ELSE structured_output

\* A bug: the instance is built without validation (model_construct).
after_loop_unvalidated(schema, structured_output) ==
    IF structured_output = None
    THEN Raise(MissingOutput)
    ELSE Return(Some(InstanceOf(schema, TheValue(structured_output))))

\* A bug: a default-constructed instance instead of the ValueError.
after_loop_default(schema, structured_output) ==
    IF structured_output = None
    THEN Return(Some(InstanceOf(schema, EmptyDict)))
    ELSE LET v == model_validate(schema, TheValue(structured_output))
         IN  IF v.ok THEN Return(v.value) ELSE Raise(ValidationError)

\* structured_query after the loop: raise, or return the validated instance.
after_loop(schema, structured_output) ==
    IF structured_output = None
    THEN Raise(MissingOutput)
    ELSE LET v == model_validate(schema, TheValue(structured_output))
         IN  IF v.ok THEN Return(v.value) ELSE Raise(ValidationError)

\* A bug: only the result messages are passed on.
stream_body_results_only(schema, message) ==
    IF message.kind = "ResultMessage" /\ Truthy(message.payload)
    THEN LET v == model_validate(schema, TheValue(message.payload))
         IN  IF v.ok
             THEN [raised |-> FALSE, pairs |-> << <<message, v.value>> >>]
             ELSE [raised |-> TRUE, pairs |-> << >>]
    ELSE [raised |-> FALSE, pairs |-> << >>]

\* structured_query_stream's loop body: the pair it yields for `message`, or
\* the ValidationError that model_validate raises out of the generator.
stream_body(schema, message) ==
    IF message.kind = "ResultMessage" /\ Truthy(message.payload)
    THEN LET v == model_validate(schema, TheValue(message.payload))
         IN  IF v.ok
             THEN [raised |-> FALSE, pairs |-> << <<message, v.value>> >>]
             ELSE [raised |-> TRUE, pairs |-> << >>]
    ELSE [raised |-> FALSE, pairs |-> << <<message, None>> >>]

\* A bug: an except clause that turns the SDK's failure into Missing-Output.
propagate_as_missing(error) == Raise(MissingOutput)

\* Neither function has a try/except: what query() raises reaches the caller.
propagate(error) == Raise(error)

\* A bug: structured_output kept in one module-level variable.
frame_shared(c) == 1

\* structured_output is a local: each call has its own frame.
frame(c) == c

----------------------------------------------------------------------------
(* The autorefactor command (src/autoswe/refactor.py).                     *)
(* A text is the sequence of its parts, so that texts can be joined and    *)
(* searched; the empty string is << >>.                                    *)

\* The marker, in two parts: it may arrive split over two text blocks.
NO_REFACTORING_MARKER == <<"<promise>NO REFACTORING ", "NEEDED</promise>">>

Prose == <<"Extracted a helper. ">>

MarkerHead == <<"<promise>NO REFACTORING ">>

MarkerTail == <<"NEEDED</promise>">>

Texts == {Prose, MarkerHead, MarkerTail, NO_REFACTORING_MARKER}

TextBlock(text) == [type |-> "TextBlock", text |-> text]

ThinkingBlock(thinking) == [type |-> "ThinkingBlock", text |-> thinking]

ToolUseBlock == [type |-> "ToolUseBlock", text |-> Prose]

ToolResultBlock(content) == [type |-> "ToolResultBlock", text |-> content]

AssistantTurn(content) ==
    [kind |-> "AssistantMessage", content |-> content, result |-> None]

SystemNotice ==
    [kind |-> "SystemMessage", content |-> << >>, result |-> Some(NO_REFACTORING_MARKER)]

\* A ResultMessage with its `result` text (None, "" or a text).
ResultText(result) ==
    [kind |-> "ResultMessage", content |-> << >>, result |-> result]

\* What query(prompt=REFACTOR_PROMPT) may yield in a run.
RunMessages ==
    {AssistantTurn(<<TextBlock(t)>>) : t \in Texts}
    \cup {AssistantTurn(<<ThinkingBlock(NO_REFACTORING_MARKER), ToolUseBlock,
                          ToolResultBlock(NO_REFACTORING_MARKER)>>),
          SystemNotice,
          ResultText(None), ResultText(Some(<< >>)),
          ResultText(Some(NO_REFACTORING_MARKER))}

RECURSIVE text_blocks(_)
\* The texts of the TextBlocks of a message's content, in order.
text_blocks(content) ==
    IF content = << >> THEN << >>
    ELSE (IF Head(content).type = "TextBlock" THEN <<Head(content).text>> ELSE << >>)
         \o text_blocks(Tail(content))

\* run_claude_code's loop body: full_output after `message`.
collect(message, collected) ==
    IF message.kind = "AssistantMessage"
    THEN collected \o text_blocks(message.content)
    ELSE IF message.kind = "ResultMessage"
              /\ message.result # None /\ TheValue(message.result) # << >>
    THEN Append(collected, TheValue(message.result))
    ELSE collected

RECURSIVE join(_)
\* "".join(full_output)
join(texts) ==
    IF texts = << >> THEN << >> ELSE Head(texts) \o join(Tail(texts))

\* A bug: the output is compared with the marker instead of searched.
marker_is_output(output) == output = NO_REFACTORING_MARKER

\* NO_REFACTORING_MARKER in output
marker_in(output) ==
    \E k \in 1..Len(output) :
      /\ k + Len(NO_REFACTORING_MARKER) - 1 <= Len(output)
      /\ SubSeq(output, k, k + Len(NO_REFACTORING_MARKER) - 1) = NO_REFACTORING_MARKER

\* len(range(max_iterations))
range_len(n) == IF n > 0 THEN n ELSE 0

VARIABLES
    max_iterations,     \* the --max option
    iteration,          \* number of runs started (the loop's i + 1)
    finished,           \* number of runs whose stream ended
    rpc,                \* "loop", "running", "no_refactoring_needed",
                        \*   "max_reached" or "failed"
    run_messages,       \* the messages of the current (or last) run
    full_output,        \* run_claude_code's list of collected texts
    output              \* None, or the text the last finished run returned

loop_vars == <<max_iterations, iteration, finished, rpc, run_messages, full_output, output>>

\* The command has not been started.
LoopIdle ==
    /\ max_iterations = 0
    /\ iteration = 0
    /\ finished = 0
    /\ rpc = "loop"
    /\ run_messages = << >>
    /\ full_output = << >>
    /\ output = None


----------------------------------------------------------------------------
(* The review command (src/autoswe/review.py).                             *)
(* Time stamps are gh's ISO 8601 UTC strings, which compare as the times   *)
(* they name; they are numbered in time order. A missing key is None.      *)

\* "@codex review", in two parts, so that a body can hold it or miss it.
CodexReview == <<"@codex", " review">>

\* Comment bodies: the request inside other text, and its first part alone.
Bodies == {<<"Please ", "@codex", " review", " again">>,
           <<"@codex", " is slow">>}

\* Two instants, the earlier first.
Times == {1, 2}

\* The comments and commits of `gh pr view --json comments,commits`.
Comments == [body : Bodies, createdAt : {Some(t) : t \in Times}]

Commits == [committedDate : {Some(t) : t \in Times}]

SeqsUpTo(S, n) == UNION {[1..m -> S] : m \in 0..n}

\* The comment lists and the commit lists of a pull request; at most one
\* commit per instant.
CommentLists == SeqsUpTo(Comments, MaxComments)

CommitLists == SeqsUpTo(Commits, Cardinality(Times))

\* The pull requests `gh pr list` can name.
PullRequests == {101, 102}

\* The lists `gh pr list` returns: each pull request at most once, the
\* newest (the highest number) first.
Listings ==
    {l \in SeqsUpTo(PullRequests, Cardinality(PullRequests)) :
       \A a \in 1..Len(l), b \in 1..Len(l) : a < b => l[a] > l[b]}

\* "@codex review" in body
codex_review_in(body) ==
    \E k \in 1..Len(body) :
      /\ k + Len(CodexReview) - 1 <= Len(body)
      /\ SubSeq(body, k, k + Len(CodexReview) - 1) = CodexReview

RECURSIVE last_codex_review_time_in_order(_)
\* A bug: the last matching comment in list order, not the latest one.
last_codex_review_time_in_order(comments) ==
    IF comments = << >> THEN None
    ELSE LET comment == comments[Len(comments)]
         IN  IF codex_review_in(comment.body) /\ comment.createdAt # None
             THEN comment.createdAt
             ELSE last_codex_review_time_in_order(SubSeq(comments, 1, Len(comments) - 1))

RECURSIVE last_time_after(_, _)
\* get_last_codex_review_time's loop, from last_time on.
last_time_after(comments, last_time) ==
    IF comments = << >> THEN last_time
    ELSE LET comment == Head(comments)
             created_at == comment.createdAt
         IN  last_time_after(
               Tail(comments),
               IF /\ codex_review_in(comment.body)
                  /\ created_at # None
                  /\ (last_time = None \/ TheValue(created_at) > TheValue(last_time))
               THEN created_at
               ELSE last_time)

get_last_codex_review_time(comments) == last_time_after(comments, None)

RECURSIVE latest_time_after(_, _)
\* get_latest_commit_time's loop, from latest_time on.
latest_time_after(commits, latest_time) ==
    IF commits = << >> THEN latest_time
    ELSE LET committed_date == Head(commits).committedDate
         IN  latest_time_after(
               Tail(commits),
               IF /\ committed_date # None
                  /\ (latest_time = None \/ TheValue(committed_date) > TheValue(latest_time))
               THEN committed_date
               ELSE latest_time)

get_latest_commit_time(commits) == latest_time_after(commits, None)

\* needs_review: whether to ask, and the reason printed.
needs_review(comments, commits) ==
    LET last_review == get_last_codex_review_time(comments)
        latest_commit == get_latest_commit_time(commits)
    IN  IF last_review = None
        THEN [should_review |-> TRUE, reason |-> "No '@codex review' comment found"]
        ELSE IF latest_commit # None /\ TheValue(latest_commit) > TheValue(last_review)
        THEN [should_review |-> TRUE, reason |-> "New commits after last review"]
        ELSE [should_review |-> FALSE, reason |-> "Already reviewed, no new commits"]

VARIABLES
    dry_run,            \* the --dry-run option
    auto,               \* the --auto option
    vpc,                \* "start", "fetch", "confirm", "post", "done", "failed"
    prs,                \* the pull requests listed
    position,           \* how many of them the loop has taken up
    pr_comments,        \* the comments fetched for prs[position]
    pr_commits,         \* the commits fetched for prs[position]
    answer,             \* None, or what the user answered for prs[position]
    status,             \* per pull request: the status line printed
    posted              \* per pull request: "@codex review" comments added

review_vars == <<dry_run, auto, vpc, prs, position, pr_comments, pr_commits,
                 answer, status, posted>>

\* The command has not been started.
ReviewIdle ==
    /\ dry_run = FALSE
    /\ auto = FALSE
    /\ vpc = "start"
    /\ prs = << >>
    /\ position = 0
    /\ pr_comments = << >>
    /\ pr_commits = << >>
    /\ answer = None
    /\ status = [pr \in PullRequests |-> "none"]
    /\ posted = [pr \in PullRequests |-> 0]

other_vars == <<loop_vars, review_vars>>

----------------------------------------------------------------------------
(* State.                                                                  *)

Calls == {1, 2}

Forms == {"structured_query", "structured_query_stream"}

VARIABLES
    base_options,       \* the caller's options object (None or the object)
    pc,                 \* per call: "idle", "consuming" or "done"
    form,               \* per call: which entry point was called
    schema,             \* per call: the schema argument
    requests,           \* per call: the options of each request opened
    stream,             \* per call: the SDK stream: "closed", "open",
                        \*   "ended", or the error it raised
    events,             \* per call: the messages the stream delivered
    structured_output,  \* per frame: structured_query's local variable
    yielded,            \* per call: the pairs the generator has yielded
    outcome             \* per call: what the caller got

adapter_vars == <<base_options, pc, form, schema, requests, stream, events,
                  structured_output, yielded, outcome>>

vars == <<adapter_vars, other_vars>>

Init ==
    /\ base_options \in BaseOptions
    /\ pc = [c \in Calls |-> "idle"]
    /\ form = [c \in Calls |-> "structured_query"]
    /\ schema = [c \in Calls |-> CompanyInfo]
    /\ requests = [c \in Calls |-> << >>]
    /\ stream = [c \in Calls |-> "closed"]
    /\ events = [c \in Calls |-> << >>]
    /\ structured_output = [c \in Calls |-> None]
    /\ yielded = [c \in Calls |-> << >>]
    /\ outcome = [c \in Calls |-> Pending]
    /\ LoopIdle
    /\ ReviewIdle

\* The call: merge the options, open the request, enter the loop.
Call(c, f, s) ==
    /\ pc[c] = "idle"
    /\ LET merged == merge_options(base_options, s)
       IN  /\ base_options' = merged.options
           /\ requests' = [requests EXCEPT ![c] = Append(@, merged.result)]
    /\ pc' = [pc EXCEPT ![c] = "consuming"]
    /\ form' = [form EXCEPT ![c] = f]
    /\ schema' = [schema EXCEPT ![c] = s]
    /\ stream' = [stream EXCEPT ![c] = "open"]
    /\ structured_output' =
         IF f = "structured_query"
         THEN [structured_output EXCEPT ![frame(c)] = None]
         ELSE structured_output
    /\ UNCHANGED <<events, yielded, outcome>>
    /\ UNCHANGED other_vars

\* One pass of `async for message in query(...)`.
Receive(c, message) ==
    /\ pc[c] = "consuming"
    /\ stream[c] = "open"
    /\ events' = [events EXCEPT ![c] = Append(@, message)]
    /\ IF form[c] = "structured_query"
       THEN /\ structured_output' =
                 [structured_output EXCEPT
                    ![frame(c)] = loop_body(message, structured_output[frame(c)])]
            /\ UNCHANGED <<pc, yielded, outcome>>
       ELSE LET step == stream_body(schema[c], message)
            IN  /\ yielded' = [yielded EXCEPT ![c] = @ \o step.pairs]
                /\ pc' = [pc EXCEPT ![c] = IF step.raised THEN "done" ELSE @]
                /\ outcome' = [outcome EXCEPT
                                 ![c] = IF step.raised THEN Raise(ValidationError) ELSE @]
                /\ UNCHANGED structured_output
    /\ UNCHANGED <<base_options, form, schema, requests, stream>>
    /\ UNCHANGED other_vars

\* query()'s stream ends: the loop is left and the function finishes.
EndOfStream(c) ==
    /\ pc[c] = "consuming"
    /\ stream[c] = "open"
    /\ stream' = [stream EXCEPT ![c] = "ended"]
    /\ pc' = [pc EXCEPT ![c] = "done"]
    /\ outcome' = [outcome EXCEPT
                     ![c] = IF form[c] = "structured_query"
                            THEN after_loop(schema[c], structured_output[frame(c)])
                            ELSE Exhausted]
    /\ UNCHANGED <<base_options, form, schema, requests, events,
                   structured_output, yielded>>
    /\ UNCHANGED other_vars

\* query() raises while the next message is awaited.
Fail(c, error) ==
    /\ pc[c] = "consuming"
    /\ stream[c] = "open"
    /\ stream' = [stream EXCEPT ![c] = error]
    /\ pc' = [pc EXCEPT ![c] = "done"]
    /\ outcome' = [outcome EXCEPT ![c] = propagate(error)]
    /\ UNCHANGED <<base_options, form, schema, requests, events,
                   structured_output, yielded>>
    /\ UNCHANGED other_vars

\* The caller is done with the call; the slot is free for the next call.
Discard(c) ==
    /\ pc[c] = "done"
    /\ pc' = [pc EXCEPT ![c] = "idle"]
    /\ form' = [form EXCEPT ![c] = "structured_query"]
    /\ schema' = [schema EXCEPT ![c] = CompanyInfo]
    /\ requests' = [requests EXCEPT ![c] = << >>]
    /\ stream' = [stream EXCEPT ![c] = "closed"]
    /\ events' = [events EXCEPT ![c] = << >>]
    /\ yielded' = [yielded EXCEPT ![c] = << >>]
    /\ outcome' = [outcome EXCEPT ![c] = Pending]
    /\ structured_output' =
         IF form[c] = "structured_query"
         THEN [structured_output EXCEPT ![frame(c)] = None]
         ELSE structured_output
    /\ UNCHANGED base_options
    /\ UNCHANGED other_vars

\* One caller, one call after another, either entry point.
Next ==
    \/ \E f \in Forms, s \in Schemas : Call(1, f, s)
    \/ \E m \in Messages : Len(events[1]) < MaxEvents /\ Receive(1, m)
    \/ EndOfStream(1)
    \/ \E e \in TransportErrors : Fail(1, e)
    \/ Discard(1)

Spec == Init /\ [][Next]_vars

InFlightEvents == Len(events[1]) + Len(events[2])

\* Two callers whose calls overlap in any order.
NextConc ==
    \/ \E c \in Calls, f \in Forms, s \in Schemas : Call(c, f, s)
    \/ \E c \in Calls, m \in Messages :
         InFlightEvents < MaxInFlightEvents /\ Receive(c, m)
    \/ \E c \in Calls : EndOfStream(c)
    \/ \E c \in Calls, e \in TransportErrors : Fail(c, e)
    \/ \E c \in Calls : Discard(c)

SpecConc == Init /\ [][NextConc]_vars

----------------------------------------------------------------------------
(* What a call was given, read off the messages its stream delivered.      *)

ResultIndexes(h) == {i \in 1..Len(h) : h[i].kind = "ResultMessage"}

HasTerminal(h) == ResultIndexes(h) # {}

\* The terminal result event: the last ResultMessage of the stream.
TerminalIndex(h) ==
    CHOOSE i \in ResultIndexes(h) : \A j \in ResultIndexes(h) : j <= i

TerminalPayload(h) == h[TerminalIndex(h)].payload

\* The instance has exactly the schema's fields, each with the field's type.
Conforms(s, instance) ==
    /\ instance.model = s.title
    /\ \A f \in s.fields :
         Cardinality({e \in instance.fields : e[1] = f.name /\ e[2] = f.type}) = 1
    /\ \A e \in instance.fields : \E f \in s.fields : f.name = e[1] /\ f.type = e[2]

\* `value` is what validating the carried payload against s gives.
PassedValidation(s, payload, value) ==
    /\ payload # None
    /\ model_validate(s, TheValue(payload)).ok
    /\ value = model_validate(s, TheValue(payload)).value
    /\ value # None
    /\ Conforms(s, TheValue(value))

Blocking(c) == form[c] = "structured_query" /\ pc[c] # "idle"

Streaming(c) == form[c] = "structured_query_stream" /\ pc[c] # "idle"

\* The call ran its stream to the end, with no failure of the SDK.
RanToEnd(c) == pc[c] = "done" /\ stream[c] = "ended"

\* Positions of the yielded pairs whose result is not None.
PresentResults(c) == {k \in 1..Len(yielded[c]) : yielded[c][k][2] # None}

----------------------------------------------------------------------------
\* C1: structured_query either returns an instance that model_validate
\* produced from a result message's structured_output, or raises; every
\* non-None result that structured_query_stream yields is such an instance.
\* Nothing unvalidated, partial or default-constructed reaches the caller.
C1_OnlyValidatedRecords ==
    \A c \in Calls :
      /\ (Blocking(c) /\ pc[c] = "done") => outcome[c].kind \in {"returned", "raised"}
      /\ outcome[c].kind # "returned" => outcome[c].value = None
      /\ outcome[c].kind = "returned" =>
           \E i \in ResultIndexes(events[c]) :
             PassedValidation(schema[c], events[c][i].payload, outcome[c].value)
      /\ \A k \in PresentResults(c) :
           \E i \in ResultIndexes(events[c]) :
             /\ yielded[c][k][1] = events[c][i]
             /\ PassedValidation(schema[c], events[c][i].payload, yielded[c][k][2])

C1_Witness ==
    /\ Blocking(1) /\ RanToEnd(1)
    /\ schema[1] = CompanyInfo
    /\ Len(events[1]) >= 2
    /\ outcome[1].kind = "returned"

\* C2: when the terminal (last) result message carries a payload that
\* conforms to the schema, structured_query returns exactly the validation
\* of that payload, whatever earlier messages carried.
C2_TerminalPayloadReturned ==
    \A c \in Calls :
      (/\ Blocking(c) /\ RanToEnd(c)
       /\ HasTerminal(events[c])
       /\ TerminalPayload(events[c]) # None
       /\ model_validate(schema[c], TheValue(TerminalPayload(events[c]))).ok)
      => outcome[c] =
           Return(model_validate(schema[c], TheValue(TerminalPayload(events[c]))).value)

C4_ValidationErrorPropagated ==
    \A c \in Calls :
      (/\ Blocking(c) /\ RanToEnd(c)
       /\ HasTerminal(events[c])
       /\ TerminalPayload(events[c]) # None
       /\ ~model_validate(schema[c], TheValue(TerminalPayload(events[c]))).ok)
      => outcome[c] = Raise(ValidationError)

\* C5: structured_query_stream yields at most one pair with a non-None
\* result; once the stream has ended there is exactly one, the pair of the
\* terminal result message, if that message carried a valid payload, and
\* none otherwise.
C5_OneResultPair ==
    \A c \in Calls :
      Streaming(c) =>
        /\ Cardinality(PresentResults(c)) <= 1
        /\ RanToEnd(c) =>
             PresentResults(c) =
               IF /\ HasTerminal(events[c])
                  /\ TerminalPayload(events[c]) # None
                  /\ model_validate(schema[c], TheValue(TerminalPayload(events[c]))).ok
               THEN {TerminalIndex(events[c])}
               ELSE {}

\* C6: no call changes the caller's options object in any field, however
\* many calls are made with it; and calls given the same options and the
\* same schema send equal merged options.
C6_BaseOptionsNeverMutated ==
    [][/\ base_options' = base_options
       /\ \A c1 \in Calls, c2 \in Calls :
            (pc'[c1] # "idle" /\ pc'[c2] # "idle" /\ schema'[c1] = schema'[c2])
            => requests'[c1] = requests'[c2]]_vars

C6_Witness ==
    /\ base_options = Some(ShapedOptions)
    /\ pc[1] = "done" /\ pc[2] = "done"
    /\ form[1] = "structured_query" /\ form[2] = "structured_query_stream"
    /\ schema[1] = CompanyInfo /\ schema[2] = CompanyInfo

\* C7: the options sent with the request equal the caller's options (the
\* defaults when the caller gave None) in every field but output_format,
\* which is {type: json_schema, schema: the schema's descriptor} whatever
\* the caller had set there.
C7_SentOptions ==
    \A c \in Calls :
      pc[c] # "idle" =>
        LET sent == requests[c][1]
            base == IF base_options = None THEN DefaultOptions
                    ELSE TheValue(base_options)
        IN  /\ DOMAIN sent = DOMAIN base
            /\ \A field \in DOMAIN base \ {"output_format"} : sent[field] = base[field]
            /\ sent.output_format =
                 Some([type |-> "json_schema",
                       schema |-> model_json_schema(schema[c])])

C7_Witness ==
    /\ base_options = Some(ShapedOptions)
    /\ pc[1] = "consuming"
    /\ schema[1] = CompanyInfo
    /\ requests[1][1].output_format # ShapedOptions.output_format

\* C8: a call has exactly one request open from its start to its end,
\* whatever its outcome; a failure the SDK raises while the stream is
\* consumed ends the call with that same failure, not with Missing-Output
\* and not with a value.
C8_OneRequestNoRecovery ==
    \A c \in Calls :
      /\ Len(requests[c]) = IF pc[c] = "idle" THEN 0 ELSE 1
      /\ stream[c] \in TransportErrors =>
           /\ pc[c] = "done"
           /\ outcome[c] = Raise(stream[c])
           /\ outcome[c].error # MissingOutput
           /\ outcome[c].value = None

C8_Witness ==
    /\ stream[1] \in TransportErrors
    /\ Len(events[1]) >= 1
    /\ Len(requests[1]) = 1
    /\ outcome[1] = Raise(stream[1])

\* C9 as stated: the generator yields one pair per message, in order and
\* with the message unchanged, and ends when the stream ends;
\* structured_query finishes only after a terminal result message was seen.
C9_OnePairPerEvent ==
    \A c \in Calls :
      /\ Streaming(c) =>
           /\ Len(yielded[c]) = Len(events[c])
           /\ \A k \in 1..Len(yielded[c]) : yielded[c][k][1] = events[c][k]
           /\ pc[c] = "done" => stream[c] # "open"
      /\ (Blocking(c) /\ pc[c] = "done") => HasTerminal(events[c])

\* C9: the generator yields one pair for each message it consumes, in order
\* and with the message unchanged, except that a message whose payload
\* fails validation gets no pair: the ValidationError is raised there and
\* ends the sequence. Otherwise the sequence ends when the stream ends or
\* fails. structured_query returns, or raises Missing-Output or the
\* validation error, only once the stream has ended; only a failure of the
\* stream itself ends it sooner.
C9_PairsFollowEvents ==
    \A c \in Calls :
      /\ Streaming(c) =>
           /\ Len(yielded[c]) + (IF outcome[c] = Raise(ValidationError) THEN 1 ELSE 0)
                = Len(events[c])
           /\ \A k \in 1..Len(yielded[c]) : yielded[c][k][1] = events[c][k]
           /\ pc[c] = "done" =>
                \/ stream[c] = "ended" /\ outcome[c] = Exhausted
                \/ stream[c] = "open" /\ outcome[c] = Raise(ValidationError)
                \/ stream[c] \in TransportErrors /\ outcome[c] = Raise(stream[c])
           /\ pc[c] = "consuming" => stream[c] = "open" /\ outcome[c] = Pending
      /\ Blocking(c) =>
           /\ pc[c] = "consuming" => stream[c] = "open" /\ outcome[c] = Pending
           /\ pc[c] = "done" =>
                \/ stream[c] = "ended"
                \/ stream[c] \in TransportErrors /\ outcome[c] = Raise(stream[c])

C9_Witness ==
    /\ Streaming(1)
    /\ pc[1] = "done"
    /\ outcome[1] = Raise(ValidationError)
    /\ Len(events[1]) = 3
    /\ Len(yielded[1]) = 2

----------------------------------------------------------------------------
(* A call's outcome as a function of its own arguments and messages.       *)

RECURSIVE LastStructuredOutput(_)
\* The last non-empty structured_output among the result messages of h.
LastStructuredOutput(h) ==
    IF h = << >> THEN None
    ELSE LET m == h[Len(h)]
         IN  IF m.kind = "ResultMessage" /\ m.payload \notin {None, Some(EmptyDict)}
             THEN m.payload
             ELSE LastStructuredOutput(SubSeq(h, 1, Len(h) - 1))

OwnOutcome(s, h, end) ==
    IF end \in TransportErrors THEN Raise(end)
    ELSE IF LastStructuredOutput(h) = None THEN Raise(MissingOutput)
    ELSE IF model_validate(s, TheValue(LastStructuredOutput(h))).ok
    THEN Return(model_validate(s, TheValue(LastStructuredOutput(h))).value)
    ELSE Raise(ValidationError)

\* C10: with calls in flight together and their messages interleaved in any
\* order, what a structured_query call returns or raises is determined by
\* its own schema, its own messages and how its own stream ended.
C10_CallsDoNotInterfere ==
    \A c \in Calls :
      (Blocking(c) /\ pc[c] = "done")
      => outcome[c] = OwnOutcome(schema[c], events[c], stream[c])

C10_Witness ==
    /\ Blocking(1) /\ RanToEnd(1)
    /\ outcome[1].kind = "returned"
    /\ LastStructuredOutput(events[1]) = Some(Acme)
    /\ Blocking(2) /\ pc[2] = "consuming"
    /\ structured_output[2] = Some(Anthropic)

----------------------------------------------------------------------------
(* The autorefactor loop.                                                  *)

\* No structured query is in progress.
AdapterIdle ==
    /\ base_options = None
    /\ pc = [c \in Calls |-> "idle"]
    /\ form = [c \in Calls |-> "structured_query"]
    /\ schema = [c \in Calls |-> CompanyInfo]
    /\ requests = [c \in Calls |-> << >>]
    /\ stream = [c \in Calls |-> "closed"]
    /\ events = [c \in Calls |-> << >>]
    /\ structured_output = [c \in Calls |-> None]
    /\ yielded = [c \in Calls |-> << >>]
    /\ outcome = [c \in Calls |-> Pending]

InitRefactor ==
    /\ max_iterations \in -1..MaxIterations
    /\ iteration = 0
    /\ finished = 0
    /\ rpc = "loop"
    /\ run_messages = << >>
    /\ full_output = << >>
    /\ output = None
    /\ AdapterIdle
    /\ ReviewIdle

\* `for i in range(max_iterations)` has a next i: run_claude_code is called.
StartRun ==
    /\ rpc = "loop"
    /\ iteration < range_len(max_iterations)
    /\ iteration' = iteration + 1
    /\ rpc' = "running"
    /\ run_messages' = << >>
    /\ full_output' = << >>
    /\ UNCHANGED <<max_iterations, finished, output>>
    /\ UNCHANGED <<adapter_vars, review_vars>>

\* One pass of run_claude_code's `async for message in query(...)`.
RunMessage(message) ==
    /\ rpc = "running"
    /\ run_messages' = Append(run_messages, message)
    /\ full_output' = collect(message, full_output)
    /\ UNCHANGED <<max_iterations, iteration, finished, rpc, output>>
    /\ UNCHANGED <<adapter_vars, review_vars>>

\* The run's stream ends: run_claude_code returns the joined text and the
\* loop tests it for the marker.
RunEnd ==
    /\ rpc = "running"
    /\ output' = Some(join(full_output))
    /\ finished' = finished + 1
    /\ rpc' = IF marker_in(join(full_output)) THEN "no_refactoring_needed" ELSE "loop"
    /\ UNCHANGED <<max_iterations, iteration, run_messages, full_output>>
    /\ UNCHANGED <<adapter_vars, review_vars>>

\* query() raises during a run: nothing catches it, the command ends.
RunFail ==
    /\ rpc = "running"
    /\ rpc' = "failed"
    /\ UNCHANGED <<max_iterations, iteration, finished, run_messages, full_output, output>>
    /\ UNCHANGED <<adapter_vars, review_vars>>

\* The range is used up: "Reached max iterations" is printed.
LoopExhausted ==
    /\ rpc = "loop"
    /\ iteration >= range_len(max_iterations)
    /\ rpc' = "max_reached"
    /\ UNCHANGED <<max_iterations, iteration, finished, run_messages, full_output, output>>
    /\ UNCHANGED <<adapter_vars, review_vars>>

NextRefactor ==
    \/ StartRun
    \/ \E m \in RunMessages : Len(run_messages) < MaxRunMessages /\ RunMessage(m)
    \/ RunEnd
    \/ RunFail
    \/ LoopExhausted

SpecRefactor == InitRefactor /\ [][NextRefactor]_vars

RECURSIVE CollectedOutput(_)
\* The texts of a run's messages as the claim counts them: every assistant
\* text block and every non-empty result text, in order, run together.
CollectedOutput(h) ==
    IF h = << >> THEN << >>
    ELSE LET m == h[Len(h)]
             blocks == {k \in 1..Len(m.content) : m.content[k].type = "TextBlock"}
             own == IF m.kind = "AssistantMessage"
                    THEN join([k \in 1..Len(m.content) |->
                                 IF k \in blocks THEN m.content[k].text ELSE << >>])
                    ELSE IF m.kind = "ResultMessage" /\ m.result # None
                    THEN TheValue(m.result)
                    ELSE << >>
         IN  CollectedOutput(SubSeq(h, 1, Len(h) - 1)) \o own

\* The text holds the marker: text = before + marker + after.
HoldsMarker(text) ==
    \E a \in 0..Len(text), b \in 1..Len(text) + 1 :
      text = SubSeq(text, 1, a) \o NO_REFACTORING_MARKER \o SubSeq(text, b, Len(text))

LoopStopped == rpc \in {"no_refactoring_needed", "max_reached", "failed"}

Runs == IF max_iterations > 0 THEN max_iterations ELSE 0

\* C11 as stated: the loop stops either right after the first run whose
\* collected output holds the marker, or after exactly max_iterations runs
\* with the report that the maximum was reached.
C11_StopsOnMarkerOrMax ==
    LoopStopped =>
      \/ /\ rpc = "no_refactoring_needed"
         /\ output # None /\ HoldsMarker(TheValue(output))
      \/ /\ rpc = "max_reached"
         /\ iteration = Runs /\ finished = Runs

\* C11: at most max_iterations runs are started (none when max_iterations
\* <= 0), one at a time; the output of a run is its assistant text blocks
\* and result text joined; after a run whose output holds the marker the
\* loop stops and no run follows; without the marker it stops after exactly
\* max_iterations runs with the report that the maximum was reached; and a
\* run that raises ends the command there, with no further run or report.
C11_RefactorLoop ==
    /\ iteration <= Runs
    /\ iteration - finished = IF rpc \in {"running", "failed"} THEN 1 ELSE 0
    /\ finished > 0 =>
         /\ output # None
         /\ rpc \in {"loop", "no_refactoring_needed", "max_reached"} =>
              TheValue(output) = CollectedOutput(run_messages)
         /\ HoldsMarker(TheValue(output)) <=> rpc = "no_refactoring_needed"
    /\ rpc = "no_refactoring_needed" => finished >= 1
    /\ rpc = "max_reached" => iteration = Runs /\ finished = Runs
    /\ rpc = "failed" => iteration >= 1

C11_Witness ==
    /\ max_iterations = MaxIterations
    /\ rpc = "no_refactoring_needed"
    /\ finished = 2
    /\ Len(run_messages) = 2
    /\ run_messages[1].kind = "AssistantMessage"
    /\ run_messages[2].kind = "AssistantMessage"
    /\ TheValue(output) = Prose \o NO_REFACTORING_MARKER

----------------------------------------------------------------------------
(* The review command's run (src/autoswe/review.py, review).               *)

InitReview ==
    /\ dry_run \in BOOLEAN
    /\ auto \in BOOLEAN
    /\ vpc = "start"
    /\ prs = << >>
    /\ position = 0
    /\ pr_comments = << >>
    /\ pr_commits = << >>
    /\ answer = None
    /\ status = [pr \in PullRequests |-> "none"]
    /\ posted = [pr \in PullRequests |-> 0]
    /\ AdapterIdle
    /\ LoopIdle

\* Where the for loop goes after the pull request at position pos.
after_pr(listing, pos) == IF pos < Len(listing) THEN "fetch" ELSE "done"

\* get_review_requested_prs returns; with no pull request the command ends.
ListPRs(listing) ==
    /\ vpc = "start"
    /\ prs' = listing
    /\ vpc' = IF listing = << >> THEN "done" ELSE "fetch"
    /\ UNCHANGED <<dry_run, auto, position, pr_comments, pr_commits, answer,
                   status, posted>>
    /\ UNCHANGED <<adapter_vars, loop_vars>>

\* The loop takes up the next pull request: get_pr_details returns, and
\* needs_review, --dry-run and --auto decide up to the prompt or the post.
ViewPR(comments, commits) ==
    /\ vpc = "fetch"
    /\ LET pr == prs[position + 1]
           needs == needs_review(comments, commits)
       IN  /\ position' = position + 1
           /\ pr_comments' = comments
           /\ pr_commits' = commits
           /\ answer' = None
           /\ IF ~needs.should_review
              THEN /\ status' = [status EXCEPT ![pr] = "skipping"]
                   /\ vpc' = after_pr(prs, position + 1)
              ELSE IF dry_run
              THEN /\ status' = [status EXCEPT ![pr] = "would_add"]
                   /\ vpc' = after_pr(prs, position + 1)
              ELSE IF auto
              THEN /\ status' = status
                   /\ vpc' = "post"
              ELSE /\ status' = status
                   /\ vpc' = "confirm"
    /\ UNCHANGED <<dry_run, auto, prs, posted>>
    /\ UNCHANGED <<adapter_vars, loop_vars>>

\* The user answers typer.confirm.
Confirm(yes) ==
    /\ vpc = "confirm"
    /\ answer' = Some(yes)
    /\ IF yes
       THEN /\ vpc' = "post"
            /\ status' = status
       ELSE /\ vpc' = after_pr(prs, position)
            /\ status' = [status EXCEPT ![prs[position]] = "skipped"]
    /\ UNCHANGED <<dry_run, auto, prs, position, pr_comments, pr_commits, posted>>
    /\ UNCHANGED <<adapter_vars, loop_vars>>

\* add_pr_comment returns: gh has added the comment.
AddComment ==
    /\ vpc = "post"
    /\ posted' = [posted EXCEPT ![prs[position]] = @ + 1]
    /\ status' = [status EXCEPT ![prs[position]] = "added"]
    /\ vpc' = after_pr(prs, position)
    /\ UNCHANGED <<dry_run, auto, prs, position, pr_comments, pr_commits, answer>>
    /\ UNCHANGED <<adapter_vars, loop_vars>>

\* A gh command exits with an error: run_gh_command raises RuntimeError,
\* which nothing catches.
GhFails ==
    /\ vpc \in {"start", "fetch", "post"}
    /\ vpc' = "failed"
    /\ UNCHANGED <<dry_run, auto, prs, position, pr_comments, pr_commits,
                   answer, status, posted>>
    /\ UNCHANGED <<adapter_vars, loop_vars>>

NextReview ==
    \/ \E listing \in Listings : ListPRs(listing)
    \/ \E comments \in CommentLists, commits \in CommitLists :
         ViewPR(comments, commits)
    \/ \E yes \in BOOLEAN : Confirm(yes)
    \/ AddComment
    \/ GhFails

SpecReview == InitReview /\ [][NextReview]_vars

----------------------------------------------------------------------------
(* Claim C12.                                                              *)

\* The times of the comments that hold "@codex review".
CodexReviewTimes(comments) ==
    {TheValue(comments[j].createdAt) :
       j \in {n \in 1..Len(comments) : codex_review_in(comments[n].body)}}

CommitTimes(commits) ==
    {TheValue(commits[j].committedDate) : j \in 1..Len(commits)}

\* No comment holds "@codex review", or the latest commit is later than the
\* latest such comment.
ReviewDue(comments, commits) ==
    \/ CodexReviewTimes(comments) = {}
    \/ \E c \in CommitTimes(commits) : \A r \in CodexReviewTimes(comments) : c > r

\* The pull requests the loop has taken up.
TakenUp == {prs[j] : j \in 1..position}

\* The loop is past the decision for prs[position].
Decided == position >= 1 /\ vpc \in {"fetch", "done"}

\* C12: In one run the review command posts '@codex review' at most once to
\* each listed pull request, and only if dry-run is off, and the pull request
\* has no comment containing '@codex review' or its latest commit is later
\* than its latest '@codex review' comment, and auto is on or the user
\* confirmed; with dry-run no comment is ever posted; an already reviewed
\* pull request with no newer commit is always skipped.
C12_PostsOnlyWhenDue ==
    /\ \A pr \in PullRequests :
         /\ posted[pr] <= 1
         /\ posted[pr] = 1 => pr \in TakenUp /\ ~dry_run /\ status[pr] = "added"
    /\ dry_run => \A pr \in PullRequests : posted[pr] = 0
    /\ position >= 1 =>
         LET pr == prs[position]
             due == ReviewDue(pr_comments, pr_commits)
         IN  /\ posted[pr] = 1 => due /\ (auto \/ answer = Some(TRUE))
             /\ vpc \in {"confirm", "post"} => due /\ ~dry_run
             /\ ~due => status[pr] = "skipping" /\ posted[pr] = 0
             /\ Decided /\ due /\ ~dry_run /\ (auto \/ answer = Some(TRUE)) =>
                  posted[pr] = 1

\* The first listed pull request was skipped as reviewed; the second has a
\* commit later than its one review request, the user confirms and the
\* comment is added.
C12_Witness ==
    /\ ~dry_run /\ ~auto
    /\ position = 2 /\ vpc = "done"
    /\ Len(pr_comments) = 2
    /\ CodexReviewTimes(pr_comments) = {1}
    /\ CommitTimes(pr_commits) = {2}
    /\ answer = Some(TRUE)
    /\ posted[prs[2]] = 1
    /\ status[prs[1]] = "skipping"

====
